---- MODULE Spec2Model ----
(***************************************************************************)
(* The batch-migration engine of packages/convex-helpers/values.ts:        *)
(* makeMigration's handler (one Batch Step per scheduled job),             *)
(* startMigration, startMigrationsSerially, getStatus and cancelMigration, *)
(* over a transactional document store and a scheduler of jobs.            *)
(***************************************************************************)
EXTENDS Integers, Sequences, FiniteSets, TLC

\* ------------------------------------------------------------------ bounds
\* documents in the migrated table
NumDocs == 3
\* largest explicit batchSize a start passes
MaxBatch == 1
\* start calls per behaviour
MaxStarts == 2
\* largest explicit batchSize of the single start of SpecCoverage
MaxCoverBatch == 3
\* largest value of the clock
MaxTime == 1

\* ------------------------------------------------------- program constants
DEFAULT_BATCH_SIZE == 100

\* args.cursor / opts.startCursor left undefined
Absent == -2
\* the cursor null: paginate from the beginning
Null == -1
\* workerId undefined
NoJob == 0
\* latestEnd undefined
NoTime == -1
\* args.batchSize undefined
NoBatch == 0

Names == {"m1", "m2", "m3"}
\* the lists startMigrationsSerially is called with: no name twice
SeriesLists ==
    {l \in UNION {[1..k -> Names] : k \in 0..3} :
        \A i, k \in DOMAIN l : i # k => l[i] # l[k]}
Docs == 1..NumDocs
\* a continuation cursor k stands for "after document k"
Cursors == {Null} \cup (1..NumDocs)

VARIABLES
    migrationTableName, \* TRUE iff makeMigration was given opts.migrationTable
    migrations,         \* the migrations table: name -> MigrationMetadata
    jobs,               \* _scheduled_functions: job id -> [args, kind, error]
    docs,               \* the migrated table: document -> its content
    visits,             \* history: committed migrateOne calls per name, document
    now,                \* Date.now()
    starts,             \* history: the jobs scheduled by the start functions
    ret,                \* what the last cancelMigration call returned or threw
    cancelled           \* history: the worker jobs that were pending when
                        \* cancelMigration was called on their migration, the
                        \* migration not started again since

vars == <<migrationTableName, migrations, jobs, docs, visits, now, starts, ret,
          cancelled>>

\* ------------------------------------------------------------ the scheduler
\* WorkerActive with the in-progress case forgotten
WorkerPendingOnly(workerId) ==
    /\ workerId # NoJob
    /\ jobs[workerId].kind = "pending"

\* worker.state.kind === "pending" || worker.state.kind === "inProgress"
WorkerActive(workerId) ==
    /\ workerId # NoJob
    /\ jobs[workerId].kind \in {"pending", "inProgress"}

MigrationArgs(fnName, cursor, batchSize, next, dryRun) ==
    [fnName |-> fnName, cursor |-> cursor, batchSize |-> batchSize,
     next |-> next, dryRun |-> dryRun]

\* ctx.scheduler.runAfter(0, fnRef, args): one pending job per args record
RunAfter(js, scheduled) ==
    js \o [i \in 1..Len(scheduled) |->
              [args |-> scheduled[i], kind |-> "pending", error |-> "none"]]

\* ------------------------------------------------------- the document store
\* ctx.db.query(table).paginate({ cursor, numItems }) over the static table:
\* the page after the cursor, at most numItems long. When the page ends
\* exactly on the last document the store may or may not already report
\* isDone (endKnown); a page cut short by the end of the table always does.
Paginate(cursor, numItems, endKnown) ==
    LET start == IF cursor = Null THEN 0 ELSE cursor
        end == IF start + numItems < NumDocs THEN start + numItems ELSE NumDocs
    IN [page |-> [i \in 1..(end - start) |-> start + i],
        continueCursor |-> end,
        isDone |-> IF start + numItems > NumDocs THEN TRUE
                   ELSE IF start + numItems = NumDocs THEN endKnown
                   ELSE FALSE]

\* migrateOne returns a partial update, which the handler patches in
MigrateOne(doc) == doc + 1

InPage(page, d) == \E i \in 1..Len(page) : page[i] = d

\* for (const doc of page) { next = migrateOne(ctx, doc); db.patch(doc._id, next) }
PatchPage(ds, page) ==
    [d \in Docs |-> IF InPage(page, d) THEN MigrateOne(ds[d]) ELSE ds[d]]

VisitPage(vs, n, page) ==
    [vs EXCEPT ![n] = [d \in Docs |-> IF InPage(page, d) THEN @[d] + 1 ELSE @[d]]]

\* db.insert / db.patch(state._id, state) on the migrations table
Upsert(table, state) ==
    [m \in DOMAIN table \cup {state.name} |->
        IF m = state.name THEN state ELSE table[m]]

\* --------------------------------------------------- the handler, by steps
\* Step 1: the state synthesized from the arguments
FreshState(a) ==
    [name |-> a.fnName,
     cursor |-> IF a.cursor = Absent THEN Null ELSE a.cursor,
     isDone |-> FALSE,
     workerId |-> NoJob,
     processed |-> 0,
     latestStart |-> now,
     latestEnd |-> NoTime]

\* ShouldExecute without the dry-run disjunct
ShouldExecuteNoDryRun(state, a, hasId) ==
    \/ ~hasId
    \/ state.cursor = a.cursor

\* ShouldExecute without the comparison of the cursors
ShouldExecuteAnyCursor(state, a, hasId) == TRUE

\* ShouldExecute without the test of state._id
ShouldExecuteIgnoresId(state, a, hasId) ==
    \/ state.cursor = a.cursor
    \/ a.dryRun

\* Step 2 condition: !state._id || state.cursor === args.cursor || args.dryRun
ShouldExecute(state, a, hasId) ==
    \/ ~hasId
    \/ state.cursor = a.cursor
    \/ a.dryRun

\* RunBatch with the assignment state.cursor = continueCursor left out
RunBatchStaleCursor(state, a, endKnown) ==
    LET numItems == IF a.batchSize = NoBatch THEN DEFAULT_BATCH_SIZE
                    ELSE a.batchSize
        r == Paginate(state.cursor, numItems, endKnown)
    IN [page |-> r.page,
        state |-> [state EXCEPT
                     !.isDone = r.isDone,
                     !.processed = @ + Len(r.page),
                     !.latestEnd = IF r.isDone THEN now ELSE @,
                     !.workerId = IF r.isDone THEN NoJob ELSE @]]

\* RunBatch without the assignment state.workerId = undefined
RunBatchKeepsWorker(state, a, endKnown) ==
    LET numItems == IF a.batchSize = NoBatch THEN DEFAULT_BATCH_SIZE
                    ELSE a.batchSize
        cursor == IF a.dryRun /\ a.cursor # Absent THEN a.cursor
                  ELSE state.cursor
        r == Paginate(cursor, numItems, endKnown)
    IN [page |-> r.page,
        state |-> [state EXCEPT
                     !.cursor = r.continueCursor,
                     !.isDone = r.isDone,
                     !.processed = @ + Len(r.page),
                     !.latestEnd = IF r.isDone THEN now ELSE @]]

\* Step 2, execute branch: one page, and the state after it
RunBatch(state, a, endKnown) ==
    LET numItems == IF a.batchSize = NoBatch THEN DEFAULT_BATCH_SIZE
                    ELSE a.batchSize
        cursor == IF a.dryRun /\ a.cursor # Absent THEN a.cursor
                  ELSE state.cursor
        r == Paginate(cursor, numItems, endKnown)
    IN [page |-> r.page,
        state |-> [state EXCEPT
                     !.cursor = r.continueCursor,
                     !.isDone = r.isDone,
                     !.processed = @ + Len(r.page),
                     !.latestEnd = IF r.isDone THEN now ELSE @,
                     !.workerId = IF r.isDone THEN NoJob ELSE @]]

\* Restart without the test args.cursor !== undefined
RestartAlways(state, a) ==
    [state EXCEPT !.cursor = IF a.cursor = Absent THEN Null ELSE a.cursor,
                  !.isDone = FALSE, !.latestStart = now, !.processed = 0]

\* Restart without any of the assignments of Case 2
RestartKeepsState(state, a) == state

\* Restart without the assignment state.processed = 0
RestartKeepsProcessed(state, a) ==
    IF a.cursor # Absent
    THEN [state EXCEPT !.cursor = a.cursor, !.isDone = FALSE,
                       !.latestStart = now]
    ELSE state

\* Step 2, Case 2: the cursor is overwritten for the recursive call
Restart(state, a) ==
    IF a.cursor # Absent
    THEN [state EXCEPT !.cursor = a.cursor, !.isDone = FALSE,
                       !.latestStart = now, !.processed = 0]
    ELSE state

\* NotDone written as doc && !doc.isDone: a migration with no record is skipped
NotDoneNeedsRecord(table, name) ==
    migrationTableName /\ name \in DOMAIN table /\ ~table[name].isDone

\* Step 3, done: is next[i] a migration still to run
NotDone(table, name) ==
    ~(migrationTableName /\ name \in DOMAIN table /\ table[name].isDone)

\* SeriesNext without the scan: the head of next, done or not
SeriesNextNoSkip(next, table) ==
    IF next = <<>> THEN <<>>
    ELSE <<MigrationArgs(Head(next), Absent, NoBatch, Tail(next), FALSE)>>

\* Step 3, done: the first migration of next that has not been done, with
\* the rest of the list as its own next
SeriesNext(next, table) ==
    LET todo == {i \in 1..Len(next) : NotDone(table, next[i])}
    IN IF todo = {} THEN <<>>
       ELSE LET i == CHOOSE k \in todo : \A l \in todo : k <= l
            IN <<MigrationArgs(next[i], Absent, NoBatch,
                               SubSeq(next, i + 1, Len(next)), FALSE)>>

\* Schedule without the test of state.isDone: the continuation, always
ScheduleIgnoresDone(state, a, table) == <<[a EXCEPT !.cursor = state.cursor]>>

\* Schedule passing args on as they came, without cursor: state.cursor
ScheduleStaleCursor(state, a, table) ==
    IF ~state.isDone THEN <<a>> ELSE SeriesNext(a.next, table)

\* Schedule without the recursive runAfter of the next batch
ScheduleDropsBatch(state, a, table) ==
    IF ~state.isDone THEN <<>> ELSE SeriesNext(a.next, table)

\* Step 3: what the handler schedules for the state it is about to write
Schedule(state, a, table) ==
    IF ~state.isDone THEN <<[a EXCEPT !.cursor = state.cursor]>>
    ELSE SeriesNext(a.next, table)

\* Step 2, execute branch: throw new ConvexError({ before, after, ...state })
\* rolls the transaction back
DryRunAborts(a) == a.dryRun

\* Step 4: throw new ConvexError({ args, ...state }), reached only past the
\* early return of the defer branch
DryRunAbortsLate(a, state) == a.dryRun /\ ~WorkerActive(state.workerId)

\* The whole handler for job j: whether it commits, and what it commits.
Handler(j, endKnown) ==
    LET a == jobs[j].args
        n == a.fnName
        existing == migrationTableName /\ n \in DOMAIN migrations
        state0 == IF existing THEN migrations[n] ELSE FreshState(a)
        table1 == IF migrationTableName /\ ~existing
                  THEN Upsert(migrations, state0) ELSE migrations
        execute == ShouldExecute(state0, a, migrationTableName)
        batch == RunBatch(state0, a, endKnown)
        state1 == IF execute THEN batch.state ELSE Restart(state0, a)
        page == IF execute THEN batch.page ELSE <<>>
        scheduled == Schedule(state1, a, table1)
        state2 == IF state1.isDone THEN state1
                  ELSE [state1 EXCEPT !.workerId = Len(jobs) + 1]
    IN IF (execute /\ DryRunAborts(a)) \/ (~execute /\ DryRunAbortsLate(a, state0))
       THEN [kind |-> "failed", error |-> "dryRun", migrations |-> migrations,
             docs |-> docs, visits |-> visits, scheduled |-> <<>>]
       ELSE IF ~execute /\ WorkerActive(state0.workerId)
       THEN [kind |-> "success", error |-> "none", migrations |-> table1,
             docs |-> docs, visits |-> visits, scheduled |-> <<>>]
       ELSE [kind |-> "success", error |-> "none",
             migrations |-> IF migrationTableName THEN Upsert(table1, state2)
                            ELSE table1,
             docs |-> PatchPage(docs, page),
             visits |-> VisitPage(visits, n, page),
             scheduled |-> scheduled]

\* ------------------------------------------------------------------ actions
\* the scheduler starts a pending job
BeginJob(j) ==
    /\ jobs[j].kind = "pending"
    /\ jobs' = [jobs EXCEPT ![j].kind = "inProgress"]
    /\ UNCHANGED <<migrationTableName, migrations, docs, visits, now, starts,
                   ret, cancelled>>

\* the mutation of job j runs as one transaction
RunJob(j) ==
    /\ jobs[j].kind = "inProgress"
    /\ \E endKnown \in BOOLEAN :
         LET h == Handler(j, endKnown)
         IN /\ jobs' = RunAfter([jobs EXCEPT ![j].kind = h.kind,
                                             ![j].error = h.error],
                                h.scheduled)
            /\ migrations' = h.migrations
            /\ docs' = h.docs
            /\ visits' = h.visits
    /\ UNCHANGED <<migrationTableName, now, starts, ret, cancelled>>

\* FailJob with the continuation scheduled before the failure left behind
FailJobKeepsSchedule(j) ==
    /\ jobs[j].kind = "inProgress"
    /\ jobs' = RunAfter([jobs EXCEPT ![j].kind = "failed", ![j].error = "host"],
                        <<jobs[j].args>>)
    /\ UNCHANGED <<migrationTableName, migrations, docs, visits, now, starts,
                   ret, cancelled>>

\* FailJob with the patches made before the failure left in the table
FailJobLeavesPatches(j) ==
    /\ jobs[j].kind = "inProgress"
    /\ jobs' = [jobs EXCEPT ![j].kind = "failed", ![j].error = "host"]
    /\ docs' = Handler(j, TRUE).docs
    /\ UNCHANGED <<migrationTableName, migrations, visits, now, starts, ret,
                   cancelled>>

\* a store or scheduler call of the handler rejects: nothing is committed
FailJob(j) ==
    /\ jobs[j].kind = "inProgress"
    /\ jobs' = [jobs EXCEPT ![j].kind = "failed", ![j].error = "host"]
    /\ UNCHANGED <<migrationTableName, migrations, docs, visits, now, starts,
                   ret, cancelled>>

\* ctx.scheduler.cancel(jobId) reaching the scheduler for a pending job, from
\* whoever holds the job id: the job will not run
CancelJob(j) ==
    /\ jobs[j].kind = "pending"
    /\ jobs' = [jobs EXCEPT ![j].kind = "canceled"]
    /\ UNCHANGED <<migrationTableName, migrations, docs, visits, now, starts,
                   ret, cancelled>>

\* startMigration(ctx, fnRef, { startCursor, batchSize, dryRun })
StartMigration(n, startCursor, batchSize, dryRun) ==
    /\ Cardinality(starts) < MaxStarts
    /\ jobs' = RunAfter(jobs,
                 <<MigrationArgs(n, startCursor, batchSize, <<>>, dryRun)>>)
    /\ starts' = starts \cup {Len(jobs) + 1}
    /\ cancelled' = {w \in cancelled : jobs[w].args.fnName # n}
    /\ UNCHANGED <<migrationTableName, migrations, docs, visits, now, ret>>

\* StartMigrationsSerially scheduling every migration of the list at once
StartMigrationsAll(fnRefs) ==
    /\ Cardinality(starts) < MaxStarts
    /\ jobs' = RunAfter(jobs,
                 [i \in 1..Len(fnRefs) |->
                     MigrationArgs(fnRefs[i], Absent, NoBatch, <<>>, FALSE)])
    /\ starts' = starts \cup ((Len(jobs) + 1)..(Len(jobs) + Len(fnRefs)))
    /\ UNCHANGED <<migrationTableName, migrations, docs, visits, now, ret,
                   cancelled>>

\* startMigrationsSerially(ctx, fnRefs)
StartMigrationsSerially(fnRefs) ==
    /\ Cardinality(starts) < MaxStarts
    /\ jobs' = IF Len(fnRefs) = 0 THEN jobs
               ELSE RunAfter(jobs,
                      <<MigrationArgs(Head(fnRefs), Absent, NoBatch,
                                      Tail(fnRefs), FALSE)>>)
    /\ starts' = IF Len(fnRefs) = 0 THEN starts
                 ELSE starts \cup {Len(jobs) + 1}
    /\ cancelled' = IF Len(fnRefs) = 0 THEN cancelled
                    ELSE {w \in cancelled : jobs[w].args.fnName # Head(fnRefs)}
    /\ UNCHANGED <<migrationTableName, migrations, docs, visits, now, ret>>

\* if (!state.isDone) return state;
CancelReturnsEarly(state) == ~state.isDone

\* CancelMigration marking the record as having no worker
CancelMigrationPatchesRecord(n) ==
    /\ n \in DOMAIN migrations
    /\ migrations' = [migrations EXCEPT ![n].workerId = NoJob]
    /\ ret' = [op |-> "cancelMigration", name |-> n,
               workerStatus |-> "canceled"]
    /\ UNCHANGED <<migrationTableName, jobs, docs, visits, now, starts,
                   cancelled>>

\* cancelMigration(ctx, migrationTable, migration)
CancelMigration(n) ==
    /\ IF n \notin DOMAIN migrations
       THEN /\ ret' = [op |-> "cancelMigration", name |-> n,
                       workerStatus |-> "error: not found"]
            /\ UNCHANGED <<jobs, cancelled>>
       ELSE LET state == migrations[n]
                active == WorkerActive(state.workerId)
            IN /\ cancelled' =
                     IF /\ ~state.isDone
                        /\ state.workerId # NoJob
                        /\ jobs[state.workerId].kind = "pending"
                     THEN cancelled \cup {state.workerId}
                     ELSE cancelled
               /\ IF CancelReturnsEarly(state)
                  THEN /\ ret' = [op |-> "cancelMigration", name |-> n,
                                  workerStatus |-> "undefined"]
                       /\ UNCHANGED jobs
                  ELSE IF active
                  THEN /\ jobs' = [jobs EXCEPT ![state.workerId].kind = "canceled"]
                       /\ ret' = [op |-> "cancelMigration", name |-> n,
                                  workerStatus |-> "canceled"]
                  ELSE /\ ret' = [op |-> "cancelMigration", name |-> n,
                                  workerStatus |->
                                    IF state.workerId = NoJob THEN "not found"
                                    ELSE jobs[state.workerId].kind]
                       /\ UNCHANGED jobs
    /\ UNCHANGED <<migrationTableName, migrations, docs, visits, now, starts>>

\* getStatus: the record of name m, or the placeholder of lines 558-563
StatusDoc(m) ==
    IF m \in DOMAIN migrations THEN migrations[m]
    ELSE [name |-> m, status |-> "not found", workerId |-> NoJob,
          isDone |-> FALSE]

\* getStatus: a record that is done as it is, any other with the kind,
\* batchSize and next of its worker (undefined when there is no worker)
Enriched(migration) ==
    IF migration.isDone THEN [migration |-> migration]
    ELSE LET workerId == migration.workerId
         IN [migration |-> migration,
             workerStatus |-> IF workerId = NoJob THEN "undefined"
                              ELSE jobs[workerId].kind,
             batchSize |-> IF workerId = NoJob THEN NoBatch
                           ELSE jobs[workerId].args.batchSize,
             next |-> IF workerId = NoJob THEN <<>>
                      ELSE jobs[workerId].args.next]

\* getStatus(ctx, migrationTable, migrations?): with a list, one status per
\* entry in the order of the list (statuses); without, the statuses of the
\* stored records, at most 10 and here all of them (latest)
GetStatus(given, ms) ==
    /\ ret' = [op |-> "getStatus", name |-> "none", workerStatus |-> "none",
               statuses |-> IF given
                            THEN [i \in 1..Len(ms) |-> Enriched(StatusDoc(ms[i]))]
                            ELSE <<>>,
               latest |-> IF given THEN {}
                          ELSE {Enriched(migrations[m]) : m \in DOMAIN migrations}]
    /\ UNCHANGED <<migrationTableName, migrations, jobs, docs, visits, now,
                   starts, cancelled>>

\* time passes
Tick ==
    /\ now < MaxTime
    /\ now' = now + 1
    /\ UNCHANGED <<migrationTableName, migrations, jobs, docs, visits, starts,
                   ret, cancelled>>

\* ----------------------------------------------------------- specifications
Init ==
    /\ migrationTableName = TRUE
    /\ migrations = [m \in {} |-> 0]
    /\ jobs = <<>>
    /\ docs = [d \in Docs |-> 0]
    /\ visits = [m \in Names |-> [d \in Docs |-> 0]]
    /\ now = 0
    /\ starts = {}
    /\ ret = [op |-> "none", name |-> "none", workerStatus |-> "none"]
    /\ cancelled = {}

\* One migration, every way of starting it, failures and cancelMigration.
Next ==
    \/ \E c \in {Absent} \cup Cursors, b \in {NoBatch} \cup (1..MaxBatch),
          dr \in BOOLEAN : StartMigration("m1", c, b, dr)
    \/ \E j \in 1..Len(jobs) : BeginJob(j)
    \/ \E j \in 1..Len(jobs) : RunJob(j)
    \/ \E j \in 1..Len(jobs) : FailJob(j)
    \/ CancelMigration("m1")
    \/ Tick

Spec == Init /\ [][Next]_vars

\* One start of one migration, from the beginning, and nothing going wrong.
NextCoverage ==
    \/ /\ starts = {}
       /\ \E c \in {Absent, Null}, b \in {NoBatch} \cup (1..MaxCoverBatch) :
            StartMigration("m1", c, b, FALSE)
    \/ \E j \in 1..Len(jobs) : BeginJob(j)
    \/ \E j \in 1..Len(jobs) : RunJob(j)
    \/ Tick

SpecCoverage == Init /\ [][NextCoverage]_vars

\* SpecCoverage under a scheduler that eventually starts every pending job
\* and lets every started mutation run to its end.
SpecProgress ==
    /\ Init
    /\ [][NextCoverage]_vars
    /\ WF_vars(\E j \in 1..Len(jobs) : BeginJob(j))
    /\ WF_vars(\E j \in 1..Len(jobs) : RunJob(j))

\* One migration started and resumed without a cursor, in batches of an
\* explicit size, with batches that fail and jobs that are cancelled.
NextResume ==
    \/ \E b \in 1..MaxBatch : StartMigration("m1", Absent, b, FALSE)
    \/ \E j \in 1..Len(jobs) : BeginJob(j)
    \/ \E j \in 1..Len(jobs) : RunJob(j)
    \/ \E j \in 1..Len(jobs) : FailJob(j)
    \/ \E j \in 1..Len(jobs) : CancelJob(j)
    \/ Tick

SpecResume == Init /\ [][NextResume]_vars

\* Series of migrations, possibly overlapping, with failing batches.
NextSeries ==
    \/ \E fnRefs \in SeriesLists : StartMigrationsSerially(fnRefs)
    \/ \E j \in 1..Len(jobs) : BeginJob(j)
    \/ \E j \in 1..Len(jobs) : RunJob(j)
    \/ \E j \in 1..Len(jobs) : FailJob(j)

SpecSeries == Init /\ [][NextSeries]_vars

\* Both ways of starting, on two migrations: starts with and without
\* overrides and series, with failing batches.
ClientNames == {"m1", "m2"}
ClientLists == {l \in SeriesLists : \A i \in DOMAIN l : l[i] \in ClientNames}

NextStarts ==
    \/ \E n \in ClientNames, c \in {Absent, Null}, b \in {NoBatch} \cup (1..MaxBatch),
          dr \in BOOLEAN : StartMigration(n, c, b, dr)
    \/ \E fnRefs \in ClientLists : StartMigrationsSerially(fnRefs)
    \/ \E j \in 1..Len(jobs) : BeginJob(j)
    \/ \E j \in 1..Len(jobs) : RunJob(j)
    \/ \E j \in 1..Len(jobs) : FailJob(j)

SpecStarts == Init /\ [][NextStarts]_vars

\* One start or one series, and the status and cancel service called at
\* any time on a migration that has no record, is active, has failed or is
\* done.
NextService ==
    \/ /\ starts = {}
       /\ \/ \E c \in {Absent, Null}, b \in {NoBatch} \cup (1..MaxBatch) :
                StartMigration("m1", c, b, FALSE)
          \/ \E fnRefs \in ClientLists : StartMigrationsSerially(fnRefs)
    \/ \E j \in 1..Len(jobs) : BeginJob(j)
    \/ \E j \in 1..Len(jobs) : RunJob(j)
    \/ \E j \in 1..Len(jobs) : FailJob(j)
    \/ \E n \in ClientNames : CancelMigration(n)
    \/ \E given \in BOOLEAN, ms \in ClientLists : GetStatus(given, ms)

SpecService == Init /\ [][NextService]_vars

\* makeMigration called without opts.migrationTable
InitStateless ==
    /\ migrationTableName = FALSE
    /\ migrations = [m \in {} |-> 0]
    /\ jobs = <<>>
    /\ docs = [d \in Docs |-> 0]
    /\ visits = [m \in Names |-> [d \in Docs |-> 0]]
    /\ now = 0
    /\ starts = {}
    /\ ret = [op |-> "none", name |-> "none", workerStatus |-> "none"]
    /\ cancelled = {}

\* Without a migration table: starts of one migration with every cursor,
\* dry runs, series, and failing batches.
NextStateless ==
    \/ \E c \in {Absent} \cup Cursors, b \in {NoBatch} \cup (1..MaxBatch),
          dr \in BOOLEAN : StartMigration("m1", c, b, dr)
    \/ \E fnRefs \in ClientLists : StartMigrationsSerially(fnRefs)
    \/ \E j \in 1..Len(jobs) : BeginJob(j)
    \/ \E j \in 1..Len(jobs) : RunJob(j)
    \/ \E j \in 1..Len(jobs) : FailJob(j)

SpecStateless == InitStateless /\ [][NextStateless]_vars

\* Callers that start one migration with an explicit cursor, and only while
\* no job but the jobs of such starts is pending or in progress: two starts
\* at the same time, or one after the chain of the other has ended.
NextRace ==
    \/ /\ \A k \in 1..Len(jobs) :
            jobs[k].kind \in {"pending", "inProgress"} => k \in starts
       /\ \E c \in Cursors, b \in {NoBatch} \cup (1..MaxBatch) :
            StartMigration("m1", c, b, FALSE)
    \/ \E j \in 1..Len(jobs) : BeginJob(j)
    \/ \E j \in 1..Len(jobs) : RunJob(j)
    \/ \E j \in 1..Len(jobs) : FailJob(j)
    \/ Tick

SpecRace == Init /\ [][NextRace]_vars

\* Starts of one migration, with and without cursor, issued only until the
\* migration is done: every job that runs after the completion was queued
\* before it or descends from such a job.
NextQueued ==
    \/ /\ ~("m1" \in DOMAIN migrations /\ migrations["m1"].isDone)
       /\ \E c \in {Absent} \cup Cursors, b \in {NoBatch} \cup (1..MaxBatch) :
            StartMigration("m1", c, b, FALSE)
    \/ \E j \in 1..Len(jobs) : BeginJob(j)
    \/ \E j \in 1..Len(jobs) : RunJob(j)
    \/ \E j \in 1..Len(jobs) : FailJob(j)
    \/ Tick

SpecQueued == Init /\ [][NextQueued]_vars

\* ------------------------------------------------------------------ claims
\* job j's mutation ends in this step
Ends(j) == jobs[j].kind = "inProgress" /\ jobs'[j].kind # "inProgress"

\* job id w is that of a pending or in-progress job
ActiveJob(w) == w # NoJob /\ jobs[w].kind \in {"pending", "inProgress"}

\* where the page after a cursor starts
Position(cursor) == IF cursor = Null THEN 0 ELSE cursor

\* nothing is committed and nothing is scheduled in this step
NoEffect ==
    /\ migrations' = migrations
    /\ docs' = docs
    /\ visits' = visits
    /\ Len(jobs') = Len(jobs)

\* C2 (as stated): a job scheduled by a start call, with or without an
\* explicit cursor and not a dry run, that runs while the stored workerId
\* refers to a pending or in-progress job is a no-op: the state record is
\* unchanged, no document is processed and no job is scheduled.
C2_StartWhileActiveIsNoOp ==
    [][\A j \in starts :
         (/\ Ends(j)
          /\ ~jobs[j].args.dryRun
          /\ jobs[j].args.fnName \in DOMAIN migrations
          /\ ActiveJob(migrations[jobs[j].args.fnName].workerId))
         => NoEffect]_vars

\* C4: a job with dryRun = TRUE whose handler runs always ends failed with
\* the dry-run abort, and the migrated table, the migration state records
\* (an absent record stays absent) and every other scheduled job are what
\* they were before it ran; nothing is scheduled.
C4_DryRunPurity ==
    [][\A j \in 1..Len(jobs) :
         (/\ Ends(j)
          /\ jobs[j].args.dryRun
          /\ jobs'[j].error # "host")
         => (/\ jobs'[j].kind = "failed"
             /\ jobs'[j].error = "dryRun"
             /\ migrations' = migrations
             /\ docs' = docs
             /\ Len(jobs') = Len(jobs)
             /\ \A k \in 1..Len(jobs) : k # j => jobs'[k] = jobs[k])]_vars

\* C4 witness: a dry run was scheduled and aborted while the migration was
\* active: its record is not done, has processed documents, and points at a
\* worker that was scheduled before the dry run and is still pending.
C4_Witness ==
    \E j \in 1..Len(jobs) :
        /\ jobs[j].args.dryRun
        /\ jobs[j].kind = "failed"
        /\ jobs[j].error = "dryRun"
        /\ "m1" \in DOMAIN migrations
        /\ ~migrations["m1"].isDone
        /\ migrations["m1"].processed > 0
        /\ migrations["m1"].workerId # NoJob
        /\ migrations["m1"].workerId < j
        /\ jobs[migrations["m1"].workerId].kind = "pending"

\* C5 (as stated): cancelMigration on a migration whose record is not done
\* and whose worker is pending or in progress cancels that job and reports
\* workerStatus "canceled", leaving the record as it was.
C5_CancelCancelsActiveWorker ==
    [][(/\ ret' # ret
        /\ ret'.op = "cancelMigration"
        /\ ret'.name \in DOMAIN migrations
        /\ ~migrations[ret'.name].isDone
        /\ ActiveJob(migrations[ret'.name].workerId))
       => (/\ jobs'[migrations[ret'.name].workerId].kind = "canceled"
           /\ ret'.workerStatus = "canceled"
           /\ migrations' = migrations)]_vars

\* C6 (as stated): after cancelMigration was called on a migration whose
\* worker was pending, no batch of that migration executes until it is
\* started again; and an invocation without a cursor that takes effect on a
\* record that is not done keeps the stored cursor and processed count.
C6_NoBatchAfterCancel ==
    [][/\ \A w \in cancelled \cap cancelled' :
            visits'[jobs[w].args.fnName] = visits[jobs[w].args.fnName]
       /\ \A j \in 1..Len(jobs) :
            (/\ Ends(j)
             /\ jobs[j].args.cursor = Absent
             /\ ~jobs[j].args.dryRun
             /\ jobs[j].args.fnName \in DOMAIN migrations
             /\ ~migrations[jobs[j].args.fnName].isDone)
            => (/\ migrations'[jobs[j].args.fnName].cursor
                     = migrations[jobs[j].args.fnName].cursor
                /\ migrations'[jobs[j].args.fnName].processed
                     = migrations[jobs[j].args.fnName].processed)]_vars

\* C1: after a single start from the beginning (no cursor, or the cursor
\* null) and with no failure, no document is passed to migrateOne twice, and
\* once the record is done every document has been passed to it exactly
\* once and processed equals the number of documents.
C1_FullCoverage ==
    /\ \A d \in Docs : visits["m1"][d] <= 1
    /\ ("m1" \in DOMAIN migrations /\ migrations["m1"].isDone)
          => (/\ \A d \in Docs : visits["m1"][d] = 1
              /\ migrations["m1"].processed = NumDocs)

\* C1 witness: the migration is done after a chain of batches of size 1
C1_Witness ==
    /\ "m1" \in DOMAIN migrations
    /\ migrations["m1"].isDone
    /\ \E j \in 1..Len(jobs) :
          /\ jobs[j].args.batchSize = 1
          /\ jobs[j].args.cursor = 2
          /\ jobs[j].kind = "success"

\* C3: an invocation without a cursor that finds a record that is not done
\* and whose worker is not active changes neither cursor, processed nor
\* latestStart, processes nothing itself, and schedules one job carrying the
\* stored cursor; every executed batch starts right after the cursor of its
\* job, processed counts the documents handled, and no document is passed
\* to migrateOne a second time.
C3_ResumeCorrect ==
    [][/\ \A j \in 1..Len(jobs) :
            LET n == jobs[j].args.fnName
            IN (/\ Ends(j)
                /\ jobs'[j].kind = "success"
                /\ jobs[j].args.cursor = Absent
                /\ n \in DOMAIN migrations
                /\ ~migrations[n].isDone
                /\ ~ActiveJob(migrations[n].workerId))
               => (/\ migrations'[n].cursor = migrations[n].cursor
                   /\ migrations'[n].processed = migrations[n].processed
                   /\ migrations'[n].latestStart = migrations[n].latestStart
                   /\ visits' = visits
                   /\ docs' = docs
                   /\ Len(jobs') = Len(jobs) + 1
                   /\ jobs'[Len(jobs')].args.fnName = n
                   /\ jobs'[Len(jobs')].args.cursor = migrations[n].cursor
                   /\ migrations'[n].workerId = Len(jobs'))
       /\ \A j \in 1..Len(jobs) :
            LET n == jobs[j].args.fnName
            IN (Ends(j) /\ visits' # visits)
               => {d \in Docs : visits'[n][d] > visits[n][d]}
                    = {d \in Docs : /\ Position(jobs[j].args.cursor) < d
                                    /\ d <= migrations'[n].cursor}
       /\ \A d \in Docs : visits'["m1"][d] <= 1
       /\ "m1" \in DOMAIN migrations'
            => migrations'["m1"].processed
                 = Cardinality({d \in Docs : visits'["m1"][d] = 1})]_vars

\* C3 witness: a batch job at cursor k failed or was cancelled, the migration was started
\* again afterwards, and a later job with the same cursor k has run its
\* batch, so that more than k documents are processed.
C3_Witness ==
    \E f, s, r \in 1..Len(jobs) :
        /\ jobs[f].kind \in {"failed", "canceled"}
        /\ jobs[f].args.cursor \in 1..NumDocs
        /\ f < s /\ s < r
        /\ s \in starts
        /\ jobs[s].kind = "success"
        /\ jobs[r].args.cursor = jobs[f].args.cursor
        /\ jobs[r].kind = "success"
        /\ "m1" \in DOMAIN migrations
        /\ migrations["m1"].processed > jobs[f].args.cursor

\* the names of a job's series: its own, then its next
SeriesOf(j) == <<jobs[j].args.fnName>> \o jobs[j].args.next

\* C7: when a job's step schedules a job for another migration, that
\* migration is a later one of the job's series and every migration before
\* it in the series, the one just before it included, has a record with
\* isDone = TRUE.
C7_SeriesOrdering ==
    [][\A j \in 1..Len(jobs) :
         (/\ Ends(j)
          /\ Len(jobs') > Len(jobs)
          /\ jobs'[Len(jobs')].args.fnName # jobs[j].args.fnName)
         => \E i \in 2..Len(SeriesOf(j)) :
               /\ SeriesOf(j)[i] = jobs'[Len(jobs')].args.fnName
               /\ \A k \in 1..(i - 1) :
                     /\ SeriesOf(j)[k] \in DOMAIN migrations'
                     /\ migrations'[SeriesOf(j)[k]].isDone]_vars

\* C7 witness: the third migration of a series has been scheduled by the
\* job that completed the second
C7_Witness ==
    \E j \in 1..Len(jobs) :
        /\ jobs[j].args.fnName = "m3"
        /\ jobs[j].args.next = <<>>
        /\ \E k \in 1..(j - 1) :
              /\ jobs[k].args.fnName = "m2"
              /\ jobs[k].args.next = <<"m3">>
              /\ jobs[k].args.cursor = Null
              /\ jobs[k].kind = "success"
        /\ {"m1", "m2"} \subseteq DOMAIN migrations
        /\ migrations["m1"].isDone
        /\ migrations["m2"].isDone

\* the positions of next whose migration has no record or is not done
Todo(next) ==
    {i \in 1..Len(next) :
        next[i] \notin DOMAIN migrations \/ ~migrations[next[i]].isDone}

\* C8: a step of a job that leaves its migration done schedules exactly one
\* job, pending, for the first migration of next with no record or not
\* done, with the migrations after it as that job's next and no cursor; if
\* every migration of next is done it schedules nothing.
C8_SeriesSkip ==
    [][\A j \in 1..Len(jobs) :
         LET n == jobs[j].args.fnName
             next == jobs[j].args.next
         IN (/\ Ends(j)
             /\ jobs'[j].kind = "success"
             /\ n \in DOMAIN migrations'
             /\ migrations'[n].isDone)
            => IF Todo(next) = {} THEN Len(jobs') = Len(jobs)
               ELSE /\ Len(jobs') = Len(jobs) + 1
                    /\ jobs'[Len(jobs')].kind = "pending"
                    /\ jobs'[Len(jobs')].args.cursor = Absent
                    /\ jobs'[Len(jobs')].args.fnName \notin {n}
                    /\ \E i \in Todo(next) :
                          /\ \A k \in Todo(next) : i <= k
                          /\ jobs'[Len(jobs')].args.fnName = next[i]
                          /\ jobs'[Len(jobs')].args.next
                               = SubSeq(next, i + 1, Len(next))]_vars

\* C8 witness: "m1" was run alone; a series "m1", "m2", "m3" started then
\* scheduled no job of "m1" but one for "m2" with next "m3", and "m3" was
\* run to the end after it.
C8_Witness ==
    \E s, t \in starts :
        /\ jobs[s].args.fnName = "m1" /\ jobs[s].args.next = <<>>
        /\ jobs[t].args.fnName = "m1" /\ jobs[t].args.next = <<"m2", "m3">>
        /\ jobs[t].kind = "success"
        /\ \A k \in (t + 1)..Len(jobs) : jobs[k].args.fnName # "m1"
        /\ \E k \in (t + 1)..Len(jobs) :
              /\ jobs[k].args.fnName = "m2"
              /\ jobs[k].args.next = <<"m3">>
              /\ jobs[k].args.cursor = Absent
        /\ "m3" \in DOMAIN migrations
        /\ migrations["m3"].isDone

\* C9: a job that fails commits nothing and schedules nothing, neither the
\* continuation of its migration nor a job of a later migration of the
\* series; a new job appears only in the step of a job that succeeds or by
\* a new start call.
C9_FailureStopsSeries ==
    [][/\ \A j \in 1..Len(jobs) :
            (Ends(j) /\ jobs'[j].kind = "failed")
            => (/\ NoEffect
                /\ \A k \in 1..Len(jobs) : k # j => jobs'[k] = jobs[k])
       /\ Len(jobs') > Len(jobs)
            => \/ starts' # starts
               \/ \E j \in 1..Len(jobs) :
                     Ends(j) /\ jobs'[j].kind = "success"]_vars

\* C9 witness: a batch of a migration with a non-empty next has failed, no
\* job is pending or in progress, and the next migration has no record
C9_Witness ==
    \E j \in 1..Len(jobs) :
        /\ jobs[j].kind = "failed"
        /\ jobs[j].args.cursor = Null
        /\ jobs[j].args.next # <<>>
        /\ jobs[j].args.next[1] \notin DOMAIN migrations
        /\ \A k \in 1..Len(jobs) : ~ActiveJob(k)

\* C10: a job without a cursor (a series reaching a migration) that finds
\* the record not done and its worker pending or in progress changes
\* nothing and schedules nothing; one that finds the record done runs no
\* batch of it, leaves the records alone and schedules only a migration of
\* its next that is not done, all those before it in next being done (and
\* nothing if all are done).
C10_OverlappingSeries ==
    [][\A j \in 1..Len(jobs) :
         LET n == jobs[j].args.fnName
             next == jobs[j].args.next
         IN (/\ Ends(j)
             /\ jobs'[j].kind = "success"
             /\ jobs[j].args.cursor = Absent
             /\ n \in DOMAIN migrations)
            => /\ (~migrations[n].isDone /\ ActiveJob(migrations[n].workerId))
                    => NoEffect
               /\ migrations[n].isDone
                    => /\ migrations' = migrations
                       /\ visits' = visits
                       /\ docs' = docs
                       /\ Len(jobs') =
                            Len(jobs) + (IF Todo(next) = {} THEN 0 ELSE 1)
                       /\ Len(jobs') > Len(jobs)
                            => \E i \in Todo(next) :
                                  /\ jobs'[Len(jobs')].args.fnName = next[i]
                                  /\ \A k \in 1..(i - 1) : k \notin Todo(next)]_vars

\* C10 witness: two series were started on the same first migration, every
\* job has succeeded and that migration is done, yet the next migration of
\* one of the two series has no record: that series stopped at the no-op.
C10_Witness ==
    \E s, t \in starts :
        /\ s # t
        /\ jobs[s].args.fnName = jobs[t].args.fnName
        /\ jobs[s].args.next # <<>>
        /\ jobs[s].args.next[1] \notin DOMAIN migrations
        /\ jobs[s].args.fnName \in DOMAIN migrations
        /\ migrations[jobs[s].args.fnName].isDone
        /\ \A k \in 1..Len(jobs) : jobs[k].kind = "success"

\* C11: a record that is done becomes not done only in the step of a job of
\* that migration that carries an explicit cursor; a job without a cursor
\* that runs on a done record leaves its cursor, processed, latestStart and
\* isDone as they were, passes no document to migrateOne and schedules no
\* job of that migration.
C11_DoneUntilExplicitCursor ==
    [][/\ \A n \in DOMAIN migrations :
            (migrations[n].isDone /\ ~migrations'[n].isDone)
            => \E j \in 1..Len(jobs) :
                  /\ Ends(j)
                  /\ jobs[j].args.fnName = n
                  /\ jobs[j].args.cursor # Absent
       /\ \A j \in 1..Len(jobs) :
            LET n == jobs[j].args.fnName
            IN (/\ Ends(j)
                /\ jobs[j].args.cursor = Absent
                /\ n \in DOMAIN migrations
                /\ migrations[n].isDone)
               => (/\ migrations'[n].cursor = migrations[n].cursor
                   /\ migrations'[n].processed = migrations[n].processed
                   /\ migrations'[n].latestStart = migrations[n].latestStart
                   /\ migrations'[n].isDone
                   /\ visits' = visits
                   /\ docs' = docs
                   /\ \A k \in (Len(jobs) + 1)..Len(jobs') :
                         jobs'[k].args.fnName # n)]_vars

\* C11 witness: a migration that was done has been restarted by a start with
\* the explicit cursor null: its record is not done, counts no document,
\* still carries the time of its completion, and its worker is the job the
\* restart scheduled.
C11_Witness ==
    /\ "m1" \in DOMAIN migrations
    /\ ~migrations["m1"].isDone
    /\ migrations["m1"].latestEnd # NoTime
    /\ migrations["m1"].processed = 0
    /\ migrations["m1"].cursor = Null
    /\ \E j \in starts :
          /\ jobs[j].args.cursor = Null
          /\ jobs[j].kind = "success"
          /\ migrations["m1"].workerId > j
          /\ jobs[migrations["m1"].workerId].kind = "pending"

\* C12 (as stated): at most one job per migration name is pending or in
\* progress.
C12_OneActiveJobPerName ==
    \A j, k \in 1..Len(jobs) :
        (/\ ActiveJob(j)
         /\ ActiveJob(k)
         /\ jobs[j].args.fnName = jobs[k].args.fnName)
        => j = k

\* C13: a job that fails leaves the documents, the records and the list of
\* jobs as they were; at all times exactly the documents up to the stored
\* cursor are patched, once each, and processed counts them; and a job
\* without a cursor that finds the record not done and its worker failed
\* keeps the stored cursor and schedules one job carrying it.
C13_FailureAtomicity ==
    [][/\ \A j \in 1..Len(jobs) :
            (Ends(j) /\ jobs'[j].kind = "failed")
            => (/\ docs' = docs
                /\ visits' = visits
                /\ migrations' = migrations
                /\ Len(jobs') = Len(jobs))
       /\ "m1" \in DOMAIN migrations'
            => /\ \A d \in Docs :
                    docs'[d] = IF d <= Position(migrations'["m1"].cursor)
                               THEN 1 ELSE 0
               /\ migrations'["m1"].processed
                    = Position(migrations'["m1"].cursor)
       /\ \A j \in 1..Len(jobs) :
            LET n == jobs[j].args.fnName
            IN (/\ Ends(j)
                /\ jobs'[j].kind = "success"
                /\ jobs[j].args.cursor = Absent
                /\ n \in DOMAIN migrations
                /\ ~migrations[n].isDone
                /\ migrations[n].workerId # NoJob
                /\ jobs[migrations[n].workerId].kind = "failed")
               => (/\ migrations'[n].cursor = migrations[n].cursor
                   /\ Len(jobs') = Len(jobs) + 1
                   /\ jobs'[Len(jobs')].kind = "pending"
                   /\ jobs'[Len(jobs')].args.cursor = migrations[n].cursor)]_vars

\* C13 witness: the job of the second batch failed with the first document
\* committed, and the migration has since been resumed and run to the end
\* with every document patched once.
C13_Witness ==
    /\ "m1" \in DOMAIN migrations
    /\ migrations["m1"].isDone
    /\ migrations["m1"].processed = NumDocs
    /\ \A d \in Docs : docs[d] = 1
    /\ \E f \in 1..Len(jobs) :
          /\ jobs[f].kind = "failed"
          /\ jobs[f].error = "host"
          /\ jobs[f].args.cursor = 1

\* C14: a startMigration call appends exactly one pending job whose
\* arguments are the name and the overrides of the call; a
\* startMigrationsSerially call appends exactly one pending job for the
\* first migration of its list, with the rest of the list in order as next
\* and nothing else set, and no job for an empty list; both leave every
\* job already scheduled, the records and the documents as they were.
C14_StartsScheduleOneJob ==
    [][/\ \A n \in Names, c \in {Absent} \cup Cursors,
             b \in {NoBatch} \cup (1..MaxBatch), dr \in BOOLEAN :
            StartMigration(n, c, b, dr)
            => (/\ Len(jobs') = Len(jobs) + 1
                /\ SubSeq(jobs', 1, Len(jobs)) = jobs
                /\ jobs'[Len(jobs')].kind = "pending"
                /\ jobs'[Len(jobs')].args.fnName = n
                /\ jobs'[Len(jobs')].args.cursor = c
                /\ jobs'[Len(jobs')].args.batchSize = b
                /\ jobs'[Len(jobs')].args.dryRun = dr
                /\ jobs'[Len(jobs')].args.next = <<>>
                /\ migrations' = migrations
                /\ docs' = docs)
       /\ \A fnRefs \in SeriesLists :
            StartMigrationsSerially(fnRefs)
            => (/\ Len(jobs') = Len(jobs) + (IF fnRefs = <<>> THEN 0 ELSE 1)
                /\ SubSeq(jobs', 1, Len(jobs)) = jobs
                /\ fnRefs # <<>>
                     => /\ jobs'[Len(jobs')].kind = "pending"
                        /\ jobs'[Len(jobs')].args.fnName = fnRefs[1]
                        /\ jobs'[Len(jobs')].args.next
                             = SubSeq(fnRefs, 2, Len(fnRefs))
                        /\ jobs'[Len(jobs')].args.cursor = Absent
                        /\ jobs'[Len(jobs')].args.batchSize = NoBatch
                        /\ ~jobs'[Len(jobs')].args.dryRun
                /\ migrations' = migrations
                /\ docs' = docs)]_vars

\* C14 witness: a start of "m1" with overrides has run and left a record;
\* a series "m1", "m2" started afterwards has scheduled one job, the last,
\* still pending, for "m1" with next "m2", and "m2" has neither a job nor a
\* record.
C14_Witness ==
    \E s, t \in starts :
        /\ s < t
        /\ t = Len(jobs)
        /\ jobs[s].args.cursor = Null
        /\ jobs[s].args.batchSize = 1
        /\ jobs[s].kind = "success"
        /\ jobs[t].kind = "pending"
        /\ jobs[t].args.fnName = "m1"
        /\ jobs[t].args.next = <<"m2">>
        /\ "m1" \in DOMAIN migrations
        /\ migrations["m1"].processed = 1
        /\ "m2" \notin DOMAIN migrations
        /\ \A k \in 1..Len(jobs) : jobs[k].args.fnName = "m1"

\* C15: a getStatus or cancelMigration call changes no record and no
\* document, getStatus changes no job either, and cancelMigration for a
\* name reports the not-found error exactly when the name has no record,
\* and then cancels nothing.
C15_ServiceLeavesRecords ==
    [][ret' # ret
       => (/\ ret'.op \in {"getStatus", "cancelMigration"}
           /\ migrations' = migrations
           /\ docs' = docs
           /\ visits' = visits
           /\ ret'.op = "getStatus" => jobs' = jobs
           /\ ret'.op = "cancelMigration"
                => /\ ret'.workerStatus = "error: not found"
                        <=> ret'.name \notin DOMAIN migrations
                   /\ ret'.name \notin DOMAIN migrations => jobs' = jobs)]_vars

\* C15 witness: cancelMigration has just failed with not found for "m2"
\* while "m1" has a record that is not done and whose worker is pending,
\* and no job has been cancelled.
C15_Witness ==
    /\ ret.op = "cancelMigration"
    /\ ret.name = "m2"
    /\ ret.workerStatus = "error: not found"
    /\ "m1" \in DOMAIN migrations
    /\ ~migrations["m1"].isDone
    /\ ActiveJob(migrations["m1"].workerId)
    /\ \A k \in 1..Len(jobs) : jobs[k].kind # "canceled"

\* C16: with the migration table configured, a static table, no failure and
\* no cancellation, once the migration has been started its record
\* eventually is done and from then on stays done with no job pending or
\* in progress.
C16_Progress ==
    (starts # {})
      ~> [](/\ "m1" \in DOMAIN migrations
            /\ migrations["m1"].isDone
            /\ \A k \in 1..Len(jobs) : ~ActiveJob(k))

\* C16 witness: the migration is done after a start without a cursor and a
\* chain of at least three batch jobs, every job has succeeded and none is
\* left.
C16_Witness ==
    /\ "m1" \in DOMAIN migrations
    /\ migrations["m1"].isDone
    /\ Len(jobs) >= 4
    /\ jobs[1].args.cursor = Absent
    /\ \A k \in 1..Len(jobs) : jobs[k].kind = "success"

\* C17: without a migration table no record is ever stored, and every job
\* whose handler commits passes to migrateOne exactly the page that starts
\* after the cursor of its arguments (the beginning when it has none),
\* whatever other job of the migration is pending or in progress; it
\* schedules either the next batch of the same arguments at the end of
\* that page or, when the page reaches the end of the table, the first
\* entry of next with the rest as its next (nothing when next is empty).
C17_StatelessMode ==
    [][/\ DOMAIN migrations' = {}
       /\ \A j \in 1..Len(jobs) :
            LET a == jobs[j].args
                start == Position(IF a.cursor = Absent THEN Null ELSE a.cursor)
                numItems == IF a.batchSize = NoBatch THEN DEFAULT_BATCH_SIZE
                            ELSE a.batchSize
                end == IF start + numItems < NumDocs THEN start + numItems
                       ELSE NumDocs
            IN (Ends(j) /\ jobs'[j].kind = "success")
               => /\ \A d \in Docs :
                       visits'[a.fnName][d]
                         = visits[a.fnName][d]
                             + (IF start < d /\ d <= end THEN 1 ELSE 0)
                  /\ \/ /\ start + numItems <= NumDocs
                        /\ Len(jobs') = Len(jobs) + 1
                        /\ jobs'[Len(jobs')].kind = "pending"
                        /\ jobs'[Len(jobs')].args = [a EXCEPT !.cursor = end]
                     \/ /\ start + numItems >= NumDocs
                        /\ a.next = <<>>
                        /\ Len(jobs') = Len(jobs)
                     \/ /\ start + numItems >= NumDocs
                        /\ a.next # <<>>
                        /\ Len(jobs') = Len(jobs) + 1
                        /\ jobs'[Len(jobs')].kind = "pending"
                        /\ jobs'[Len(jobs')].args.fnName = a.next[1]
                        /\ jobs'[Len(jobs')].args.next
                             = SubSeq(a.next, 2, Len(a.next))
                        /\ jobs'[Len(jobs')].args.cursor = Absent]_vars

\* C17 witness: without a migration table the first document has been
\* passed to migrateOne twice, by the jobs of two starts, while a batch job
\* of the same migration was pending, and no record exists.
C17_Witness ==
    /\ ~migrationTableName
    /\ DOMAIN migrations = {}
    /\ visits["m1"][1] = 2
    /\ \E s, t \in starts :
          /\ s # t
          /\ jobs[s].kind = "success"
          /\ jobs[t].kind = "success"
    /\ \E k \in 1..Len(jobs) :
          /\ jobs[k].kind = "pending"
          /\ jobs[k].args.fnName = "m1"
          /\ jobs[k].args.cursor = 1

\* C18: every stored record that is done has latestEnd set and no workerId.
C18_DoneHasEndAndNoWorker ==
    \A n \in DOMAIN migrations :
        migrations[n].isDone
        => (/\ migrations[n].latestEnd # NoTime
            /\ migrations[n].workerId = NoJob)

\* C18 witness: a record is done, with the time of its completion, after a
\* chain of batches whose jobs were its workers one after the other
C18_Witness ==
    /\ "m1" \in DOMAIN migrations
    /\ migrations["m1"].isDone
    /\ migrations["m1"].latestEnd = 1
    /\ migrations["m1"].latestStart = 0
    /\ migrations["m1"].workerId = NoJob
    /\ \E j \in 1..Len(jobs) :
          /\ jobs[j].args.cursor = 2
          /\ jobs[j].kind = "success"
          /\ j \notin starts

\* C19 (as stated): every stored record that is not done has no latestEnd.
C19_EndOnlyWhenDone ==
    \A n \in DOMAIN migrations :
        ~migrations[n].isDone => migrations[n].latestEnd = NoTime

\* the documents passed to migrateOne for migration n in this step
Handled(n) == {d \in Docs : visits'[n][d] > visits[n][d]}

\* C20: in every step the processed count of a record either grows by the
\* number of documents passed to migrateOne in that step, each once, with
\* latestStart as it was, or is set to 0 with no document processed; the
\* latter only in the step of a job with an explicit cursor that sets
\* latestStart to the current time and the cursor to its own; a record
\* created in the step counts the documents of that step.
C20_ProcessedCounter ==
    [][/\ \A n \in Names, d \in Docs : visits'[n][d] <= visits[n][d] + 1
       /\ \A n \in DOMAIN migrations :
            \/ /\ migrations'[n].processed
                    = migrations[n].processed + Cardinality(Handled(n))
               /\ migrations'[n].latestStart = migrations[n].latestStart
            \/ /\ migrations'[n].processed = 0
               /\ Handled(n) = {}
               /\ migrations'[n].latestStart = now
               /\ \E j \in 1..Len(jobs) :
                     /\ Ends(j)
                     /\ jobs[j].args.fnName = n
                     /\ jobs[j].args.cursor # Absent
                     /\ migrations'[n].cursor = jobs[j].args.cursor
       /\ \A n \in DOMAIN migrations' \ DOMAIN migrations :
            /\ migrations'[n].processed = Cardinality(Handled(n))
            /\ migrations'[n].latestStart = now]_vars

\* C20 witness: a migration that was done with every document counted has
\* been restarted from the beginning at a later time and has run one batch
\* of one document since: processed is 1 although the first document has
\* been handled twice.
C20_Witness ==
    /\ "m1" \in DOMAIN migrations
    /\ ~migrations["m1"].isDone
    /\ migrations["m1"].processed = 1
    /\ migrations["m1"].latestStart = 1
    /\ migrations["m1"].cursor = 1
    /\ visits["m1"][1] = 2
    /\ visits["m1"][NumDocs] = 1

\* job j, which carries an explicit cursor, takes effect in this step: it
\* runs the page after its cursor and stores the end of that page, or it
\* restarts the record at its cursor and schedules the job of that cursor
\* as the new worker
TookEffect(j) ==
    LET a == jobs[j].args
        n == a.fnName
        start == Position(a.cursor)
        numItems == IF a.batchSize = NoBatch THEN DEFAULT_BATCH_SIZE
                    ELSE a.batchSize
        end == IF start + numItems < NumDocs THEN start + numItems
               ELSE NumDocs
    IN /\ n \in DOMAIN migrations'
       /\ \/ /\ Handled(n) = (start + 1)..end
             /\ migrations'[n].cursor = end
             /\ migrations'[n].processed
                  = (IF n \in DOMAIN migrations
                     THEN migrations[n].processed ELSE 0) + (end - start)
          \/ /\ n \in DOMAIN migrations
             /\ Handled(n) = {}
             /\ migrations'[n].cursor = a.cursor
             /\ ~migrations'[n].isDone
             /\ migrations'[n].processed = 0
             /\ migrations'[n].latestStart = now
             /\ Len(jobs') = Len(jobs) + 1
             /\ migrations'[n].workerId = Len(jobs')
             /\ jobs'[Len(jobs')].args = a

\* C21 (as stated): when callers start a migration with explicit cursors
\* while no job of it is active, every one of the resulting jobs that runs
\* takes effect and the record after it is the one it wrote.
C21_BothStartsTakeEffect ==
    [][\A j \in starts :
         (Ends(j) /\ jobs'[j].kind = "success") => TookEffect(j)]_vars

\* C21 (amended): of the jobs of starts with explicit cursors issued while
\* no job of the migration is active, one that finds the stored worker
\* pending or in progress and a stored cursor different from its own is a
\* no-op, and the record stays the one written before it; every other one
\* takes effect and the record after it is the one it wrote.
C21_RacingStarts ==
    [][\A j \in starts :
         LET n == jobs[j].args.fnName
         IN (Ends(j) /\ jobs'[j].kind = "success")
            => IF /\ n \in DOMAIN migrations
                  /\ ActiveJob(migrations[n].workerId)
                  /\ migrations[n].cursor # jobs[j].args.cursor
               THEN NoEffect
               ELSE TookEffect(j)]_vars

\* C21 witness: two starts were issued together, the first from the
\* beginning in batches of 1 and the second from cursor 2 with the default
\* batch size; both jobs have run, only the first document has been
\* handled, and the one job scheduled since is the pending worker of the
\* first start's chain: the second start was a no-op.
C21_Witness ==
    /\ Len(jobs) = 3
    /\ starts = {1, 2}
    /\ jobs[1].kind = "success"
    /\ jobs[1].args.cursor = Null
    /\ jobs[1].args.batchSize = 1
    /\ jobs[2].kind = "success"
    /\ jobs[2].args.cursor = 2
    /\ jobs[2].args.batchSize = NoBatch
    /\ jobs[3].kind = "pending"
    /\ jobs[3].args.batchSize = 1
    /\ "m1" \in DOMAIN migrations
    /\ migrations["m1"].cursor = 1
    /\ migrations["m1"].workerId = 3
    /\ visits["m1"] = [d \in Docs |-> IF d = 1 THEN 1 ELSE 0]

\* C22: with the migration table configured, whenever a record is not done
\* and its workerId is that of a pending job, the cursor argument of that
\* job is the cursor stored in the record.
C22_WorkerCarriesStoredCursor ==
    migrationTableName
    => \A n \in DOMAIN migrations :
          (/\ ~migrations[n].isDone
           /\ migrations[n].workerId # NoJob
           /\ jobs[migrations[n].workerId].kind = "pending")
          => jobs[migrations[n].workerId].args.cursor = migrations[n].cursor

\* C22 witness: the record is not done at cursor 2 and its worker, pending,
\* carries cursor 2, while an older job of the same migration is still
\* pending with cursor 1.
C22_Witness ==
    /\ "m1" \in DOMAIN migrations
    /\ ~migrations["m1"].isDone
    /\ migrations["m1"].cursor = 2
    /\ migrations["m1"].workerId # NoJob
    /\ jobs[migrations["m1"].workerId].kind = "pending"
    /\ jobs[migrations["m1"].workerId].args.cursor = 2
    /\ \E k \in 1..Len(jobs) :
          /\ k < migrations["m1"].workerId
          /\ jobs[k].kind = "pending"
          /\ jobs[k].args.cursor = 1

\* C23: with the migration table configured, a job that is not a dry run
\* and whose cursor argument differs from the stored cursor passes no
\* document to migrateOne; every document a step passes to migrateOne lies
\* after the cursor stored before the step and not after the cursor stored
\* by it; and the stored cursor moves back only in a step that resets
\* latestStart and processed and handles no document. So between two
\* resets of latestStart no document is handled twice.
C23_OncePerStart ==
    [][/\ \A j \in 1..Len(jobs) :
            LET n == jobs[j].args.fnName
            IN (/\ Ends(j)
                /\ ~jobs[j].args.dryRun
                /\ n \in DOMAIN migrations
                /\ jobs[j].args.cursor # migrations[n].cursor)
               => Handled(n) = {}
       /\ \A n \in Names :
            /\ n \notin DOMAIN migrations' => Handled(n) = {}
            /\ n \in DOMAIN migrations'
                 => \A d \in Handled(n) :
                       /\ d <= Position(migrations'[n].cursor)
                       /\ n \in DOMAIN migrations
                            => Position(migrations[n].cursor) < d
            /\ (/\ n \in DOMAIN migrations
                /\ Position(migrations'[n].cursor)
                     < Position(migrations[n].cursor))
                 => (/\ Handled(n) = {}
                     /\ migrations'[n].latestStart = now
                     /\ migrations'[n].processed = 0)]_vars

\* C23 witness: a start without a cursor and a start with the cursor null,
\* both in batches of 1, raced: the job of the second and the first batch
\* job of the first both carried the cursor null and both have run, a job
\* with cursor 2 has run as well, and yet every document has been
\* handled exactly once and the migration is done.
C23_Witness ==
    /\ "m1" \in DOMAIN migrations
    /\ migrations["m1"].isDone
    /\ migrations["m1"].processed = NumDocs
    /\ \A d \in Docs : visits["m1"][d] = 1
    /\ \E s, t \in starts, k \in 1..Len(jobs) :
          /\ jobs[s].args.cursor = Absent
          /\ jobs[s].args.batchSize = 1
          /\ jobs[t].args.cursor = Null
          /\ jobs[t].args.batchSize = 1
          /\ k \notin starts
          /\ jobs[k].args.cursor = Null
          /\ \A i \in {s, t, k} : jobs[i].kind = "success"
    /\ \E k \in 1..Len(jobs) :
          jobs[k].args.cursor = 2 /\ jobs[k].kind = "success"

\* C24 (as stated): with no start issued after a migration is done, its
\* record stays done with the cursor and the processed count it has, and
\* no job of the migration is scheduled any more, whatever job queued
\* before the completion runs afterwards.
C24_DoneStaysDone ==
    [][\A n \in DOMAIN migrations :
         migrations[n].isDone
         => (/\ migrations'[n].isDone
             /\ migrations'[n].cursor = migrations[n].cursor
             /\ migrations'[n].processed = migrations[n].processed
             /\ \A k \in (Len(jobs) + 1)..Len(jobs') :
                   jobs'[k].args.fnName # n)]_vars

====
